---- MODULE Spec2Model ----
(***************************************************************************)
(* Model of the chat view controller of static/script.js: the two state    *)
(* variables of the DOMContentLoaded closure, the DOM nodes the controller *)
(* reads and writes, and every async function as a set of suspended        *)
(* invocations, one step per await.                                        *)
(***************************************************************************)
EXTENDS Integers, Sequences, FiniteSets

\* ------------------------------------------------------------------ bounds
\* number of async invocations (fetches) issued over one run, the initial
\* history load included
MaxCalls == 4
\* length of the text the user can type into the prompt input
MaxLen == 2

\* ------------------------------------------------------------- value sets
\* the value of currentConversationId before the backend assigned an id
Null == "null"
\* li.dataset.conversationId of an <li> that carries no data attribute
Undefined == "undefined"
Ids == {"c1", "c2"}
Chars == {"a", " "}
\* a string is a sequence of characters or of literal fragments
Prompts == UNION {[1..k -> Chars] : k \in 0..MaxLen}
Replies == {<<"hello!">>}
TransportErrors == {<<"Failed to fetch">>}
JsonSyntaxError == <<"Unexpected token < in JSON at position 0">>
ChatStatuses == {"200", "500"}
ConversationStatuses == {"200", "404", "500"}
HistoryStatuses == {"200", "500"}
\* response.ok: the status is in the range 200-299
ok(status) == status = "200"

\* bodies of a non-2xx answer of POST /api/chat
ErrorBodies ==
    { [json |-> FALSE, hasDetail |-> FALSE, detail |-> <<>>],
      [json |-> TRUE,  hasDetail |-> FALSE, detail |-> <<>>],
      [json |-> TRUE,  hasDetail |-> TRUE,  detail |-> <<>>],
      [json |-> TRUE,  hasDetail |-> TRUE,  detail |-> <<"quota exceeded">>] }
\* bodies of a 2xx answer of POST /api/chat
ChatBodies ==
    { [json |-> FALSE, response |-> <<>>, conversation_id |-> Null] }
    \cup { [json |-> TRUE, response |-> r, conversation_id |-> c] :
               r \in Replies, c \in Ids }
\* bodies of a 2xx answer of GET /api/history/{id}
StoredMessages ==
    { <<>>,
      << [role |-> "user", text |-> <<"a">>],
         [role |-> "model", text |-> <<"hello!">>] >> }
ConversationBodies ==
    { [json |-> FALSE, messages |-> <<>>] }
    \cup { [json |-> TRUE, messages |-> m] : m \in StoredMessages }
\* bodies of a 2xx answer of GET /api/history
Summary(c) == [id |-> c, summary |-> <<"chat ", c>>]
StoredHistories ==
    { <<>>, <<Summary("c1")>>, <<Summary("c1"), Summary("c2")>> }
HistoryBodies ==
    { [json |-> FALSE, conversations |-> <<>>] }
    \cup { [json |-> TRUE, conversations |-> h] : h \in StoredHistories }

VARIABLES
    currentConversationId,  \* let currentConversationId
    isLoading,              \* let isLoading
    sendButtonDisabled,     \* sendButton.disabled
    promptInputDisabled,    \* promptInput.disabled
    promptInputValue,       \* promptInput.value
    chatOutput,             \* children of #chat-output, in document order
    historyList,            \* children of #history-list, in document order
    calls,                  \* async invocations suspended at an await
    nextCall,               \* number of async invocations started so far
    lastEvent               \* the handler or continuation that ran last

vars == <<currentConversationId, isLoading, sendButtonDisabled,
          promptInputDisabled, promptInputValue, chatOutput, historyList,
          calls, nextCall, lastEvent>>

\* ------------------------------------------------------------ DOM helpers
RECURSIVE trimStart(_)
trimStart(s) ==
    IF s # <<>> /\ Head(s) = " " THEN trimStart(Tail(s)) ELSE s

RECURSIVE trimEnd(_)
trimEnd(s) ==
    IF s # <<>> /\ s[Len(s)] = " " THEN trimEnd(SubSeq(s, 1, Len(s) - 1)) ELSE s

\* String.prototype.trim
trim(s) == trimEnd(trimStart(s))

\* the <div> built by addMessage: <strong>label</strong> and a text node
MessageNode(role, text) ==
    [id |-> "",
     classes |-> {"message", role},
     strong |-> IF role = "user" THEN "You:" ELSE "Model:",
     text |-> <<" ">> \o text]

addMessage(out, role, text) == Append(out, MessageNode(role, text))

LoadingNode ==
    [id |-> "loading-indicator",
     classes |-> {"message", "model", "loading"},
     strong |-> "",
     text |-> <<"Model is thinking...">>]

addLoadingIndicator(out) == Append(out, LoadingNode)

\* document.getElementById returns the first node with the id
removeLoadingIndicator(out) ==
    IF \E i \in 1..Len(out) : out[i].id = "loading-indicator"
    THEN LET i == CHOOSE k \in 1..Len(out) :
                      /\ out[k].id = "loading-indicator"
                      /\ \A j \in 1..(k - 1) : out[j].id # "loading-indicator"
         IN  SubSeq(out, 1, i - 1) \o SubSeq(out, i + 1, Len(out))
    ELSE out

\* chatOutput.innerHTML = '' followed by the placeholder message
clearChatOutput == addMessage(<<>>, "model", <<"Started a new chat.">>)

\* setLoading that never re-enables the prompt input
setLoadingKeepsInputDisabled(loading, out) ==
    [isLoading |-> loading,
     sendButtonDisabled |-> loading,
     promptInputDisabled |-> TRUE,
     chatOutput |-> IF loading THEN addLoadingIndicator(out)
                               ELSE removeLoadingIndicator(out)]

\* what setLoading(loading) assigns, given the children of #chat-output
setLoading(loading, out) ==
    [isLoading |-> loading,
     sendButtonDisabled |-> loading,
     promptInputDisabled |-> loading,
     chatOutput |-> IF loading THEN addLoadingIndicator(out)
                               ELSE removeLoadingIndicator(out)]

\* an <li> written through innerHTML: no data attribute, no listener
PlaceholderLi(text) ==
    [text |-> text, conversationId |-> Undefined, active |-> FALSE]

\* rendering that forgets historyList.innerHTML = '' before the loop
renderHistoryAppending(conversations, current) ==
    IF Len(conversations) = 0
    THEN <<PlaceholderLi(<<"No past conversations found.">>)>>
    ELSE historyList \o
         [i \in 1..Len(conversations) |->
             [text |-> conversations[i].summary,
              conversationId |-> conversations[i].id,
              active |-> conversations[i].id = current]]

\* the <li> nodes built from a parsed history answer
renderHistory(conversations, current) ==
    IF Len(conversations) = 0
    THEN <<PlaceholderLi(<<"No past conversations found.">>)>>
    ELSE [i \in 1..Len(conversations) |->
             [text |-> conversations[i].summary,
              conversationId |-> conversations[i].id,
              active |-> conversations[i].id = current]]

\* highlighting that adds the class to the match and never removes it
toggleActiveOnlyAdds(list, id) ==
    [i \in 1..Len(list) |->
        [list[i] EXCEPT !.active = (@ \/ list[i].conversationId = id)]]

\* li.classList.toggle('active', li.dataset.conversationId === id) on every li
toggleActive(list, id) ==
    [i \in 1..Len(list) |->
        [list[i] EXCEPT !.active = (list[i].conversationId = id)]]

\* startNewChat that leaves the highlighting alone
removeActiveSkipped(list) == list

\* li.classList.remove('active') on every li.active
removeActive(list) ==
    [i \in 1..Len(list) |-> [list[i] EXCEPT !.active = FALSE]]

\* ------------------------------------------------------ async invocations
Call(n, fn, at, url, id, prompt, status) ==
    [n |-> n, fn |-> fn, at |-> at, url |-> url, id |-> id,
     prompt |-> prompt, status |-> status]

\* the synchronous head of loadHistoryList, up to await fetch
HistoryLoading == <<PlaceholderLi(<<"Loading history...">>)>>
HistoryError == <<PlaceholderLi(<<"Error loading history.">>)>>

Init ==
    /\ currentConversationId = Null
    /\ isLoading = FALSE
    /\ sendButtonDisabled = FALSE
    /\ promptInputDisabled = FALSE
    /\ promptInputValue = <<>>
    /\ chatOutput = <<>>
    /\ historyList = HistoryLoading
    /\ calls = {Call(1, "loadHistoryList", "fetch", "/api/history", Null, <<>>, "")}
    /\ nextCall = 1
    /\ lastEvent = [op |-> "DOMContentLoaded"]

\* the user edits the prompt input
TypePrompt ==
    /\ ~promptInputDisabled
    /\ \E v \in Prompts : promptInputValue' = v
    /\ lastEvent' = [op |-> "input"]
    /\ UNCHANGED <<currentConversationId, isLoading, sendButtonDisabled,
                   promptInputDisabled, chatOutput, historyList, calls,
                   nextCall>>

\* --------------------------------------------------------------- sendPrompt
\* sendPrompt without its early return
sendPromptNeverReturnsEarly(promptText, loading) == FALSE

\* sendPrompt that only checks the text, not the loading flag
sendPromptIgnoresLoading(promptText, loading) == promptText = <<>>

\* if (!promptText || isLoading) return
sendPromptReturnsEarly(promptText, loading) == promptText = <<>> \/ loading

\* the error text without the detail of the body
errorDetailGeneric(status, body) == <<"HTTP error! status: ", status>>

\* errorData.detail || errorDetail, inside try { await response.json() }
errorDetail(status, body) ==
    LET generic == <<"HTTP error! status: ", status>>
    IN  IF body.json /\ body.hasDetail /\ body.detail # <<>>
        THEN body.detail
        ELSE generic

\* a catch block that only logs to the console
sendPromptCatchSilent(out, message) == removeLoadingIndicator(out)

\* catch (error): the indicator is removed and the error is displayed
sendPromptCatch(out, message) ==
    addMessage(removeLoadingIndicator(out), "model", <<"Error: ">> \o message)

\* adoption and refresh after every reply
adoptsAlways(current, data) == TRUE

\* currentConversationId !== data.conversation_id
adoptsConversationId(current, data) == current # data.conversation_id

\* the click on the send button or Enter in the prompt input
SendPrompt ==
    LET promptText == trim(promptInputValue)
        s == setLoading(TRUE, chatOutput)
    IN  IF sendPromptReturnsEarly(promptText, isLoading)
        THEN /\ lastEvent' = [op |-> "sendPrompt", accepted |-> FALSE]
             /\ UNCHANGED <<currentConversationId, isLoading,
                            sendButtonDisabled, promptInputDisabled,
                            promptInputValue, chatOutput, historyList,
                            calls, nextCall>>
        ELSE /\ nextCall + 2 <= MaxCalls
             /\ isLoading' = s.isLoading
             /\ sendButtonDisabled' = s.sendButtonDisabled
             /\ promptInputDisabled' = s.promptInputDisabled
             /\ chatOutput' = addMessage(s.chatOutput, "user", promptText)
             /\ promptInputValue' = <<>>
             /\ calls' = calls \cup
                    {Call(nextCall + 1, "sendPrompt", "fetch", "/api/chat",
                          currentConversationId, promptText, "")}
             /\ nextCall' = nextCall + 1
             /\ lastEvent' = [op |-> "sendPrompt", accepted |-> TRUE]
             /\ UNCHANGED <<currentConversationId, historyList>>

\* a catch block that posts the prompt again instead of reporting the error
SendPromptRetries(c, message) ==
    /\ nextCall < MaxCalls
    /\ calls' = (calls \ {c}) \cup
           {Call(nextCall + 1, "sendPrompt", "fetch", "/api/chat",
                 c.id, c.prompt, "")}
    /\ nextCall' = nextCall + 1
    /\ UNCHANGED <<currentConversationId, isLoading, sendButtonDisabled,
                   promptInputDisabled, promptInputValue, chatOutput,
                   historyList>>

\* catch and finally of sendPrompt for the invocation c
SendPromptFails(c, message) ==
    LET s == setLoading(FALSE, sendPromptCatch(chatOutput, message))
    IN  /\ isLoading' = s.isLoading
        /\ sendButtonDisabled' = s.sendButtonDisabled
        /\ promptInputDisabled' = s.promptInputDisabled
        /\ chatOutput' = s.chatOutput
        /\ calls' = calls \ {c}
        /\ UNCHANGED <<currentConversationId, promptInputValue, historyList,
                       nextCall>>

\* fetch('/api/chat') rejects: transport failure
ChatFetchRejects ==
    \E c \in calls : \E message \in TransportErrors :
        /\ c.fn = "sendPrompt" /\ c.at = "fetch"
        /\ SendPromptFails(c, message)
        /\ lastEvent' = [op |-> "chat rejected", n |-> c.n]

\* fetch('/api/chat') resolves with the status line; the body is still read
ChatResponds ==
    \E c \in calls : \E status \in ChatStatuses :
        /\ c.fn = "sendPrompt" /\ c.at = "fetch"
        /\ chatOutput' = removeLoadingIndicator(chatOutput)
        /\ calls' = (calls \ {c}) \cup {[c EXCEPT !.at = "json", !.status = status]}
        /\ lastEvent' = [op |-> "chat response", n |-> c.n, status |-> status]
        /\ UNCHANGED <<currentConversationId, isLoading, sendButtonDisabled,
                       promptInputDisabled, promptInputValue, historyList,
                       nextCall>>

\* response.json() of a non-2xx answer settles
ChatErrorBody ==
    \E c \in calls : \E body \in ErrorBodies :
        /\ c.fn = "sendPrompt" /\ c.at = "json" /\ ~ok(c.status)
        /\ SendPromptFails(c, errorDetail(c.status, body))
        /\ lastEvent' = [op |-> "chat error body", n |-> c.n,
                         status |-> c.status, errorData |-> body]

\* response.json() of a 2xx answer settles
ChatBody ==
    \E c \in calls : \E data \in ChatBodies :
        /\ c.fn = "sendPrompt" /\ c.at = "json" /\ ok(c.status)
        /\ lastEvent' = [op |-> "chat body", n |-> c.n, data |-> data]
        /\ IF ~data.json
           THEN SendPromptFails(c, JsonSyntaxError)
           ELSE LET replied == addMessage(chatOutput, "model", data.response)
                    s == setLoading(FALSE, replied)
                IN  /\ isLoading' = s.isLoading
                    /\ sendButtonDisabled' = s.sendButtonDisabled
                    /\ promptInputDisabled' = s.promptInputDisabled
                    /\ chatOutput' = s.chatOutput
                    /\ promptInputValue' = promptInputValue
                    /\ IF adoptsConversationId(currentConversationId, data)
                       THEN /\ nextCall < MaxCalls
                            /\ currentConversationId' = data.conversation_id
                            /\ historyList' =
                                   toggleActive(HistoryLoading, data.conversation_id)
                            /\ calls' = (calls \ {c}) \cup
                                   {Call(nextCall + 1, "loadHistoryList", "fetch",
                                         "/api/history", Null, <<>>, "")}
                            /\ nextCall' = nextCall + 1
                       ELSE /\ calls' = calls \ {c}
                            /\ UNCHANGED <<currentConversationId, historyList,
                                           nextCall>>

\* ---------------------------------------------------------- loadHistoryList
\* a catch block that also resets the loading state, as the other two do
HistoryFailsClearsLoading(c) ==
    LET s == setLoading(FALSE, chatOutput)
    IN  /\ historyList' = HistoryError
        /\ calls' = calls \ {c}
        /\ isLoading' = s.isLoading
        /\ sendButtonDisabled' = s.sendButtonDisabled
        /\ promptInputDisabled' = s.promptInputDisabled
        /\ chatOutput' = s.chatOutput
        /\ UNCHANGED <<currentConversationId, promptInputValue, nextCall>>

\* catch (error) of loadHistoryList
HistoryFails(c) ==
    /\ historyList' = HistoryError
    /\ calls' = calls \ {c}
    /\ UNCHANGED <<currentConversationId, isLoading, sendButtonDisabled,
                   promptInputDisabled, promptInputValue, chatOutput, nextCall>>

\* fetch('/api/history') rejects
HistoryFetchRejects ==
    \E c \in calls :
        /\ c.fn = "loadHistoryList" /\ c.at = "fetch"
        /\ HistoryFails(c)
        /\ lastEvent' = [op |-> "history rejected", n |-> c.n]

\* fetch('/api/history') resolves with the status line
HistoryResponds ==
    \E c \in calls : \E status \in HistoryStatuses :
        /\ c.fn = "loadHistoryList" /\ c.at = "fetch"
        /\ lastEvent' = [op |-> "history response", n |-> c.n, status |-> status]
        /\ IF ~ok(status)
           THEN HistoryFails(c)
           ELSE /\ calls' = (calls \ {c}) \cup
                       {[c EXCEPT !.at = "json", !.status = status]}
                /\ UNCHANGED <<currentConversationId, isLoading,
                               sendButtonDisabled, promptInputDisabled,
                               promptInputValue, chatOutput, historyList,
                               nextCall>>

\* response.json() of the history answer settles
HistoryBody ==
    \E c \in calls : \E body \in HistoryBodies :
        /\ c.fn = "loadHistoryList" /\ c.at = "json"
        /\ lastEvent' = [op |-> "history body", n |-> c.n, list |-> body]
        /\ IF ~body.json
           THEN HistoryFails(c)
           ELSE /\ historyList' =
                       renderHistory(body.conversations, currentConversationId)
                /\ calls' = calls \ {c}
                /\ UNCHANGED <<currentConversationId, isLoading,
                               sendButtonDisabled, promptInputDisabled,
                               promptInputValue, chatOutput, nextCall>>

\* --------------------------------------------------------- loadConversation
\* loadConversation without its guard
loadConversationNeverReturnsEarly(loading) == FALSE

\* if (isLoading) return
loadConversationReturnsEarly(loading) == loading

\* loadConversation(conversationId), up to await fetch
LoadConversation(conversationId) ==
    LET s == setLoading(TRUE, chatOutput)
    IN  IF loadConversationReturnsEarly(isLoading)
        THEN /\ lastEvent' = [op |-> "loadConversation", accepted |-> FALSE,
                              id |-> conversationId]
             /\ UNCHANGED <<currentConversationId, isLoading,
                            sendButtonDisabled, promptInputDisabled,
                            promptInputValue, chatOutput, historyList,
                            calls, nextCall>>
        ELSE /\ nextCall + 1 <= MaxCalls
             /\ isLoading' = s.isLoading
             /\ sendButtonDisabled' = s.sendButtonDisabled
             /\ promptInputDisabled' = s.promptInputDisabled
             /\ chatOutput' = clearChatOutput
             /\ currentConversationId' = conversationId
             /\ historyList' = toggleActive(historyList, conversationId)
             /\ calls' = calls \cup
                    {Call(nextCall + 1, "loadConversation", "fetch",
                          "/api/history/{id}", conversationId, <<>>, "")}
             /\ nextCall' = nextCall + 1
             /\ lastEvent' = [op |-> "loadConversation", accepted |-> TRUE,
                              id |-> conversationId]
             /\ UNCHANGED promptInputValue

\* the click listener of a rendered history entry
ClickHistoryEntry ==
    \E i \in 1..Len(historyList) :
        /\ historyList[i].conversationId # Undefined
        /\ LoadConversation(historyList[i].conversationId)

\* finally of loadConversation, after the transcript became out
LoadConversationEnds(c, out) ==
    LET s == setLoading(FALSE, out)
    IN  /\ isLoading' = s.isLoading
        /\ sendButtonDisabled' = s.sendButtonDisabled
        /\ promptInputDisabled' = s.promptInputDisabled
        /\ chatOutput' = s.chatOutput
        /\ calls' = calls \ {c}
        /\ UNCHANGED <<currentConversationId, promptInputValue, historyList,
                       nextCall>>

\* catch (error) of loadConversation
loadConversationCatch(out, message) ==
    addMessage(out, "model", <<"Error loading conversation: ">> \o message)

\* fetch('/api/history/{id}') rejects
ConversationFetchRejects ==
    \E c \in calls : \E message \in TransportErrors :
        /\ c.fn = "loadConversation" /\ c.at = "fetch"
        /\ LoadConversationEnds(c, loadConversationCatch(chatOutput, message))
        /\ lastEvent' = [op |-> "conversation rejected", n |-> c.n]

\* what loadConversation renders for a non-2xx status
conversationNotOk(out, status) ==
    IF status = "404"
    THEN addMessage(out, "model", <<"Error: Conversation not found.">>)
    ELSE loadConversationCatch(out, <<"HTTP error! status: ", status>>)

\* fetch('/api/history/{id}') resolves with the status line
ConversationResponds ==
    \E c \in calls : \E status \in ConversationStatuses :
        /\ c.fn = "loadConversation" /\ c.at = "fetch"
        /\ lastEvent' = [op |-> "conversation response", n |-> c.n,
                         id |-> c.id, status |-> status]
        /\ IF ~ok(status)
           THEN LoadConversationEnds(c, conversationNotOk(chatOutput, status))
           ELSE /\ calls' = (calls \ {c}) \cup
                       {[c EXCEPT !.at = "json", !.status = status]}
                /\ UNCHANGED <<currentConversationId, isLoading,
                               sendButtonDisabled, promptInputDisabled,
                               promptInputValue, chatOutput, historyList,
                               nextCall>>

\* messages.forEach(msg => addMessage(msg.role, msg.text))
RECURSIVE addMessages(_, _)
addMessages(out, messages) ==
    IF messages = <<>>
    THEN out
    ELSE addMessages(addMessage(out, Head(messages).role, Head(messages).text),
                     Tail(messages))

\* response.json() of the conversation answer settles
ConversationBody ==
    \E c \in calls : \E body \in ConversationBodies :
        /\ c.fn = "loadConversation" /\ c.at = "json"
        /\ lastEvent' = [op |-> "conversation body", n |-> c.n, id |-> c.id,
                         stored |-> body]
        /\ IF ~body.json
           THEN LoadConversationEnds(c,
                    loadConversationCatch(chatOutput, JsonSyntaxError))
           ELSE LoadConversationEnds(c, addMessages(chatOutput, body.messages))

\* -------------------------------------------------------------- startNewChat
\* startNewChat without its guard
startNewChatNeverReturnsEarly(loading) == FALSE

\* if (isLoading) return
startNewChatReturnsEarly(loading) == loading

\* the click on the new-chat button
StartNewChat ==
    IF startNewChatReturnsEarly(isLoading)
    THEN /\ lastEvent' = [op |-> "startNewChat", accepted |-> FALSE]
         /\ UNCHANGED <<currentConversationId, isLoading, sendButtonDisabled,
                        promptInputDisabled, promptInputValue, chatOutput,
                        historyList, calls, nextCall>>
    ELSE /\ currentConversationId' = Null
         /\ chatOutput' = clearChatOutput
         /\ promptInputValue' = <<>>
         /\ historyList' = removeActive(historyList)
         /\ lastEvent' = [op |-> "startNewChat", accepted |-> TRUE]
         /\ UNCHANGED <<isLoading, sendButtonDisabled, promptInputDisabled,
                        calls, nextCall>>

\* ------------------------------------------------------------ specification
Next ==
    \/ TypePrompt
    \/ SendPrompt
    \/ ClickHistoryEntry
    \/ StartNewChat
    \/ ChatFetchRejects
    \/ ChatResponds
    \/ ChatErrorBody
    \/ ChatBody
    \/ HistoryFetchRejects
    \/ HistoryResponds
    \/ HistoryBody
    \/ ConversationFetchRejects
    \/ ConversationResponds
    \/ ConversationBody

Spec == Init /\ [][Next]_vars

\* every fetch and every body read eventually settles
Settles ==
    \/ ChatFetchRejects \/ ChatResponds \/ ChatErrorBody \/ ChatBody
    \/ HistoryFetchRejects \/ HistoryResponds \/ HistoryBody
    \/ ConversationFetchRejects \/ ConversationResponds \/ ConversationBody

LiveSpec == Spec /\ WF_vars(Settles)

TypeOK ==
    /\ currentConversationId \in Ids \cup {Null}
    /\ isLoading \in BOOLEAN
    /\ nextCall \in 1..MaxCalls
    /\ \A c \in calls : c.n \in 1..nextCall

\* ------------------------------------------------------------- observations
\* the program's state: everything but the record of the last event
state == <<currentConversationId, isLoading, sendButtonDisabled,
           promptInputDisabled, promptInputValue, chatOutput, historyList,
           calls, nextCall>>

\* the transcript: the messages of #chat-output, without the indicator
Messages(out) == SelectSeq(out, LAMBDA node : node.id # "loading-indicator")

Last(seq) == seq[Len(seq)]

\* invocations whose request to the given endpoint has not been answered
InFlight(url) == {c \in calls : c.url = url}

\* requests to the given endpoint issued by the step
Issued(url) ==
    {c \in calls' : c.url = url /\ \A d \in calls : d.n # c.n}

\* the step is an invocation of the handler op
Invoked(op) == lastEvent'.op = op

ErrorMessage(message) == MessageNode("model", <<"Error: ">> \o message)

IsErrorMessage(node) ==
    /\ node.classes = {"message", "model"}
    /\ Len(node.text) >= 2
    /\ node.text[2] = "Error: "

\* ------------------------------------------------------------------- claims
\* C1: at most one request to POST /api/chat is in flight in every reachable
\* state; a chat request is issued only by a sendPrompt that found isLoading
\* false and no chat request in flight, and a sendPrompt attempted while one
\* is in flight changes nothing, so nothing is issued or kept for later.
C1_AtMostOneChatInFlight ==
    /\ [](Cardinality(InFlight("/api/chat")) <= 1)
    /\ [][/\ Issued("/api/chat") # {} =>
               /\ Invoked("sendPrompt")
               /\ ~isLoading
               /\ InFlight("/api/chat") = {}
               /\ Cardinality(Issued("/api/chat")) = 1
          /\ Invoked("sendPrompt") /\ InFlight("/api/chat") # {} =>
               UNCHANGED state]_vars

\* a send was attempted while a chat request was in flight
C1_Witness ==
    /\ lastEvent = [op |-> "sendPrompt", accepted |-> FALSE]
    /\ Cardinality(InFlight("/api/chat")) = 1

\* C2: an accepted sendPrompt appends exactly one user message in the step
\* that issues the request; the transcript is then unchanged until the call
\* settles, and the settling step appends exactly one message: the reply when
\* the body parsed, an error message otherwise.
C2_OneUserOneAnswer ==
    [][/\ Invoked("sendPrompt")
          /\ ~sendPromptReturnsEarly(trim(promptInputValue), isLoading) =>
             /\ Messages(chatOutput') =
                    Append(Messages(chatOutput),
                           MessageNode("user", trim(promptInputValue)))
             /\ Cardinality(Issued("/api/chat")) = 1
       /\ \A c \in InFlight("/api/chat") :
             IF \E d \in calls' : d.n = c.n
             THEN Messages(chatOutput') = Messages(chatOutput)
             ELSE /\ Len(Messages(chatOutput')) = Len(Messages(chatOutput)) + 1
                  /\ SubSeq(Messages(chatOutput'), 1, Len(Messages(chatOutput)))
                         = Messages(chatOutput)
                  /\ Last(Messages(chatOutput)) = MessageNode("user", c.prompt)
                  /\ IF lastEvent'.op = "chat body" /\ lastEvent'.data.json
                     THEN Last(Messages(chatOutput')) =
                              MessageNode("model", lastEvent'.data.response)
                     ELSE IsErrorMessage(Last(Messages(chatOutput')))]_vars

\* a send failed: the transcript is the user message and one error message
C2_Witness ==
    /\ lastEvent.op = "chat error body"
    /\ InFlight("/api/chat") = {}
    /\ Len(Messages(chatOutput)) = 2
    /\ chatOutput[1] = MessageNode("user", <<"a">>)
    /\ IsErrorMessage(chatOutput[2])

\* C3: sendPrompt with an empty or whitespace-only input, or with isLoading
\* true, changes nothing: transcript, currentConversationId, isLoading, the
\* input's text and the set of issued requests are as before.
C3_SendPromptNoOp ==
    [][Invoked("sendPrompt")
          /\ (trim(promptInputValue) = <<>> \/ isLoading) =>
             UNCHANGED state]_vars

\* a send with a non-empty text was attempted during a load
C3_Witness ==
    /\ lastEvent = [op |-> "sendPrompt", accepted |-> FALSE]
    /\ isLoading
    /\ trim(promptInputValue) # <<>>

\* C4: loadConversation and startNewChat invoked while isLoading is true
\* change nothing; a conversation request is issued only by a loadConversation
\* that found isLoading false, and currentConversationId is reset to null only
\* by a startNewChat that found isLoading false.
C4_RejectedWhileLoading ==
    [][/\ (Invoked("loadConversation") \/ Invoked("startNewChat")) /\ isLoading =>
             UNCHANGED state
       /\ Issued("/api/history/{id}") # {} =>
             /\ Invoked("loadConversation")
             /\ ~isLoading
             /\ \A c \in Issued("/api/history/{id}") : c.id = lastEvent'.id
       /\ currentConversationId # Null /\ currentConversationId' = Null =>
             Invoked("startNewChat") /\ ~isLoading]_vars

\* a history entry was clicked while a chat request was in flight
C4_Witness ==
    /\ lastEvent.op = "loadConversation"
    /\ ~lastEvent.accepted
    /\ InFlight("/api/chat") # {}
    /\ isLoading

\* C5: after a conversation load answered with 404 settled, the transcript is
\* exactly one message, the 'conversation not found' message of the model,
\* currentConversationId is the requested id and isLoading is false.
C5_NotFoundSingleMessage ==
    lastEvent.op = "conversation response" /\ lastEvent.status = "404" =>
        /\ Messages(chatOutput) =
               <<MessageNode("model", <<"Error: Conversation not found.">>)>>
        /\ currentConversationId = lastEvent.id
        /\ ~isLoading

\* C6: startNewChat with isLoading false sets currentConversationId to null,
\* leaves exactly the placeholder message in the transcript, empties the
\* input, leaves no history entry active and issues no request.
C6_StartNewChat ==
    [][Invoked("startNewChat") /\ ~isLoading =>
          /\ currentConversationId' = Null
          /\ chatOutput' = <<MessageNode("model", <<"Started a new chat.">>)>>
          /\ promptInputValue' = <<>>
          /\ \A i \in 1..Len(historyList') : ~historyList'[i].active
          /\ Len(historyList') = Len(historyList)
          /\ calls' = calls
          /\ nextCall' = nextCall]_vars

\* a new chat was started while the history panel showed conversations
C6_Witness ==
    /\ lastEvent = [op |-> "startNewChat", accepted |-> TRUE]
    /\ \E i \in 1..Len(historyList) : historyList[i].conversationId # Undefined
    /\ currentConversationId = Null

\* C7: when the body of a successful chat answer is handled, a conversation
\* id different from currentConversationId is adopted and exactly one history
\* fetch is issued; an equal id leaves currentConversationId alone and issues
\* no request.
C7_AdoptAndRefresh ==
    [][Invoked("chat body") /\ lastEvent'.data.json
          /\ (\E c \in InFlight("/api/chat") : c.n = lastEvent'.n) =>
             IF currentConversationId # lastEvent'.data.conversation_id
             THEN /\ currentConversationId' = lastEvent'.data.conversation_id
                  /\ Cardinality(Issued("/api/history")) = 1
                  /\ nextCall' = nextCall + 1
             ELSE /\ currentConversationId' = currentConversationId
                  /\ Issued("/api/history") = {}
                  /\ nextCall' = nextCall]_vars

\* a reply was handled that carried the id of the current conversation
C7_Witness ==
    /\ lastEvent.op = "chat body"
    /\ lastEvent.data.json
    /\ currentConversationId = lastEvent.data.conversation_id
    /\ \A c \in calls : c.n < lastEvent.n

\* a send or a conversation load has not finished
Busy == \E c \in calls : c.fn \in {"sendPrompt", "loadConversation"}

\* C8: every accepted sendPrompt or loadConversation eventually ends with
\* isLoading false and the send button and the prompt input enabled, provided
\* its request settles.
C8_LoadingCleared ==
    Busy ~> (~Busy /\ ~isLoading /\ ~sendButtonDisabled /\ ~promptInputDisabled)

\* a conversation load ended in an error and the controls are enabled again
C8_Witness ==
    /\ lastEvent.op = "conversation body"
    /\ ~lastEvent.stored.json
    /\ ~Busy /\ ~isLoading /\ ~sendButtonDisabled /\ ~promptInputDisabled

\* the step ends the send of invocation n in failure with the given text
SendFailedWith(message) ==
    /\ Messages(chatOutput') =
           Append(Messages(chatOutput), ErrorMessage(message))
    /\ currentConversationId' = currentConversationId

\* C9 as stated: the error message carries the detail whenever the non-2xx
\* body is JSON with a detail field.
C9_ErrorCarriesDetail ==
    [][/\ Invoked("chat error body") /\ InFlight("/api/chat") # {} =>
             IF lastEvent'.errorData.json /\ lastEvent'.errorData.hasDetail
             THEN SendFailedWith(lastEvent'.errorData.detail)
             ELSE SendFailedWith(<<"HTTP error! status: ", lastEvent'.status>>)
       /\ Invoked("chat rejected") /\ InFlight("/api/chat") # {} =>
             \E message \in TransportErrors : SendFailedWith(message)]_vars

\* C9 amended: the error message carries the detail when the non-2xx body is
\* JSON with a non-empty detail; it is the generic status text when the body
\* does not parse, has no detail or has an empty detail, and the exception's
\* description when the transport failed; currentConversationId is unchanged
\* and the appended message is the only one.
C9_ErrorCarriesNonEmptyDetail ==
    [][/\ Invoked("chat error body") /\ InFlight("/api/chat") # {} =>
             IF /\ lastEvent'.errorData.json
                /\ lastEvent'.errorData.hasDetail
                /\ lastEvent'.errorData.detail # <<>>
             THEN SendFailedWith(lastEvent'.errorData.detail)
             ELSE SendFailedWith(<<"HTTP error! status: ", lastEvent'.status>>)
       /\ Invoked("chat rejected") /\ InFlight("/api/chat") # {} =>
             \E message \in TransportErrors : SendFailedWith(message)]_vars

\* a send failed with a detail in the body, shown after the user message
C9_Witness ==
    /\ lastEvent.op = "chat error body"
    /\ lastEvent.errorData.detail = <<"quota exceeded">>
    /\ Len(chatOutput) >= 2
    /\ Last(chatOutput) = ErrorMessage(<<"quota exceeded">>)

\* C10 as stated: isLoading is true whenever any network call is outstanding.
C10_LoadingWhileAnyCall == calls # {} => isLoading

\* C10 amended: isLoading is true whenever a chat or conversation-load call
\* is outstanding; calls to the history-list endpoint do not set it.
C10_LoadingWhileChatOrConversation == Busy => isLoading

\* a chat request and a history fetch are outstanding together
C10_Witness ==
    /\ InFlight("/api/chat") # {}
    /\ InFlight("/api/history") # {}
    /\ isLoading

\* the step ends a loadHistoryList in its catch block
HistoryFailed ==
    \/ Invoked("history rejected")
    \/ Invoked("history response") /\ ~ok(lastEvent'.status)
    \/ Invoked("history body") /\ ~lastEvent'.list.json

\* C11: the panel left by a completed loadHistoryList is exactly the entries
\* of the returned list, in order, each active iff its id is
\* currentConversationId, whatever the panel held before; a second completion
\* with the same list and the same currentConversationId leaves the panel as
\* the first one left it.
C11_HistoryRenderIdempotent ==
    [][Invoked("history body") /\ lastEvent'.list.json =>
          LET conversations == lastEvent'.list.conversations
          IN  /\ IF conversations = <<>>
                 THEN historyList' =
                          <<PlaceholderLi(<<"No past conversations found.">>)>>
                 ELSE /\ Len(historyList') = Len(conversations)
                      /\ \A i \in 1..Len(conversations) :
                            historyList'[i] =
                                [text |-> conversations[i].summary,
                                 conversationId |-> conversations[i].id,
                                 active |-> conversations[i].id =
                                                currentConversationId]
              /\ lastEvent.op = "history body"
                    /\ lastEvent.list = lastEvent'.list =>
                       historyList' = historyList]_vars

\* the refresh completed after the initial load, with an active entry
C11_Witness ==
    /\ lastEvent.op = "history body"
    /\ lastEvent.list.json
    /\ lastEvent.n > 1
    /\ InFlight("/api/history") = {}
    /\ Len(historyList) = 2
    /\ \E i \in 1..2 : historyList[i].active

\* C12: a failed history fetch replaces the panel with the error placeholder
\* and changes nothing else: transcript, currentConversationId, isLoading and
\* the controls are as before, so the guards of send, load and new chat answer
\* as before, and no request is issued.
C12_HistoryFailureIsLocal ==
    [][HistoryFailed =>
          /\ historyList' = HistoryError
          /\ UNCHANGED <<currentConversationId, isLoading, sendButtonDisabled,
                         promptInputDisabled, promptInputValue, chatOutput,
                         nextCall>>
          /\ calls' = {c \in calls : c.n # lastEvent'.n}
          /\ Issued("/api/history") = {}]_vars

\* a history fetch failed while a send was in flight
C12_Witness ==
    /\ lastEvent.op = "history response"
    /\ ~ok(lastEvent.status)
    /\ historyList = HistoryError
    /\ InFlight("/api/chat") # {}
    /\ isLoading

\* C13: a chat request is issued by exactly the accepted sendPrompt steps and
\* a conversation request by exactly the accepted loadConversation steps, one
\* request each; no other step, in particular no failure, issues one.
C13_NoRetry ==
    [][/\ Cardinality(Issued("/api/chat")) =
             (IF Invoked("sendPrompt") /\ ~isLoading
                    /\ trim(promptInputValue) # <<>>
              THEN 1 ELSE 0)
       /\ Cardinality(Issued("/api/history/{id}")) =
             (IF Invoked("loadConversation") /\ ~isLoading
              THEN 1 ELSE 0)]_vars

\* the only chat request failed and nothing was issued after it
C13_Witness ==
    /\ lastEvent.op = "chat rejected"
    /\ lastEvent.n = nextCall
    /\ InFlight("/api/chat") = {}
    /\ InFlight("/api/history/{id}") = {}

\* ------------------------------------------------ first send of a new chat
\* The run of the page in which the user sends prompts of a new chat until
\* the backend assigns an id, and then does nothing more; every history fetch
\* succeeds, and a history request issued after the backend assigned the id
\* is answered with a list that has the id.  The request of the initial load
\* was issued before the id existed: its answer may or may not have it.

\* the user types before an id is adopted
FirstTypePrompt == currentConversationId = Null /\ TypePrompt

\* the user sends before an id is adopted
FirstSendPrompt == currentConversationId = Null /\ SendPrompt

\* GET /api/history answers 2xx
HistoryRespondsOk == HistoryResponds /\ ok(lastEvent'.status)

\* the ids of a history answer
ListedIds(conversations) ==
    {conversations[i].id : i \in 1..Len(conversations)}

\* the body of GET /api/history parses; the refresh, the last call issued,
\* lists the adopted conversation
HistoryBodyListed ==
    /\ HistoryBody
    /\ lastEvent'.list.json
    /\ currentConversationId # Null /\ lastEvent'.n = nextCall =>
           currentConversationId \in ListedIds(lastEvent'.list.conversations)

FirstSendNext ==
    \/ FirstTypePrompt
    \/ FirstSendPrompt
    \/ ChatFetchRejects
    \/ ChatResponds
    \/ ChatErrorBody
    \/ ChatBody
    \/ HistoryRespondsOk
    \/ HistoryBodyListed

FirstSendSpec == Init /\ [][FirstSendNext]_vars /\ WF_vars(FirstSendNext)

\* the panel shows the current conversation, marked active
ShowsCurrentConversation ==
    \E i \in 1..Len(historyList) :
        /\ historyList[i].conversationId = currentConversationId
        /\ historyList[i].active

\* C14: after a send adopted a conversation id and the user does nothing
\* more, once every outstanding history fetch has completed, in whatever
\* order, the panel shows an entry for the id, marked active.
C14_RefreshShowsConversation ==
    currentConversationId # Null /\ InFlight("/api/history") = {} =>
        ShowsCurrentConversation

\* the same, for the runs in which the refresh completes last
C14_RefreshLastShowsConversation ==
    /\ currentConversationId # Null
    /\ InFlight("/api/history") = {}
    /\ lastEvent.n = nextCall
    => ShowsCurrentConversation

\* C15: after a conversation load whose request succeeded, the transcript is
\* exactly the messages the backend returned, in order, and
\* currentConversationId is the requested id.
C15_TranscriptIsStoredMessages ==
    lastEvent.op = "conversation body" /\ lastEvent.stored.json =>
        /\ Messages(chatOutput) = addMessages(<<>>, lastEvent.stored.messages)
        /\ currentConversationId = lastEvent.id

\* the same, with the placeholder of clearChatOutput in front
C15_TranscriptIsPlaceholderAndStoredMessages ==
    lastEvent.op = "conversation body" /\ lastEvent.stored.json =>
        /\ Messages(chatOutput) =
               addMessages(clearChatOutput, lastEvent.stored.messages)
        /\ currentConversationId = lastEvent.id

\* what a pending conversation load leaves alone and what its end does
LoadConversationUndisturbed ==
    \A c \in InFlight("/api/history/{id}") :
        IF \E d \in calls' : d.n = c.n
        THEN UNCHANGED <<currentConversationId, isLoading, chatOutput,
                         promptInputValue>>
        ELSE /\ ~isLoading'
             /\ currentConversationId' = currentConversationId
             /\ Len(Messages(chatOutput')) >= Len(Messages(chatOutput))
             /\ SubSeq(Messages(chatOutput'), 1, Len(Messages(chatOutput)))
                    = Messages(chatOutput)

\* C16: an accepted loadConversation clears the transcript, then sets the
\* loading state (which adds the indicator), then issues its request; nothing
\* else changes the state until its answer is rendered and loading cleared.
C16_LoadConversationOrder ==
    [][/\ Invoked("loadConversation") /\ ~isLoading =>
             /\ chatOutput' = setLoading(TRUE, clearChatOutput).chatOutput
             /\ isLoading'
             /\ Cardinality(Issued("/api/history/{id}")) = 1
       /\ LoadConversationUndisturbed]_vars

\* the same with the order of the code: loading is set, then the transcript
\* cleared, which removes the indicator again
C16_LoadConversationOrderOfCode ==
    [][/\ Invoked("loadConversation") /\ ~isLoading =>
             /\ chatOutput' = clearChatOutput
             /\ isLoading'
             /\ Cardinality(Issued("/api/history/{id}")) = 1
       /\ LoadConversationUndisturbed]_vars

\* the number of loading indicators in #chat-output
LoadingIndicators(out) ==
    Cardinality({i \in 1..Len(out) : out[i].id = "loading-indicator"})

\* C17: while a request of sendPrompt or loadConversation is unanswered,
\* exactly one loading indicator is in the transcript; while isLoading is
\* false there is none.
C17_IndicatorFollowsLoading ==
    /\ \A c \in calls :
          c.fn \in {"sendPrompt", "loadConversation"} /\ c.at = "fetch" =>
              LoadingIndicators(chatOutput) = 1
    /\ ~isLoading => LoadingIndicators(chatOutput) = 0

\* the same for the requests of sendPrompt only
C17_IndicatorFollowsSend ==
    /\ \A c \in calls :
          c.fn = "sendPrompt" /\ c.at = "fetch" =>
              LoadingIndicators(chatOutput) = 1
    /\ ~isLoading => LoadingIndicators(chatOutput) = 0

\* C18: in every reachable state a conversation entry of the history panel is
\* active iff its id is currentConversationId; so at most one entry is active
\* and none is while currentConversationId is null.
C18_ActiveIsCurrent ==
    /\ \A i \in 1..Len(historyList) :
          historyList[i].conversationId # Undefined =>
              (historyList[i].active <=>
                   historyList[i].conversationId = currentConversationId)
    /\ Cardinality({i \in 1..Len(historyList) : historyList[i].active}) <= 1
    /\ currentConversationId = Null =>
           \A i \in 1..Len(historyList) : ~historyList[i].active

\* the second entry was clicked and is the only active one
C18_Witness ==
    /\ lastEvent.op = "loadConversation"
    /\ lastEvent.accepted
    /\ Len(historyList) = 2
    /\ currentConversationId = historyList[2].conversationId
    /\ historyList[2].active
    /\ ~historyList[1].active

\* C19: while a chat request is in flight, currentConversationId is the id
\* that was posted and the last message of the transcript is the user message
\* of that send; no step changes either before the answer is handled, and the
\* handling step appends its one message directly after the user message.
C19_SendUndisturbed ==
    /\ [](\A c \in InFlight("/api/chat") :
             /\ c.id = currentConversationId
             /\ Messages(chatOutput) # <<>>
             /\ Last(Messages(chatOutput)) = MessageNode("user", c.prompt))
    /\ [][\A c \in InFlight("/api/chat") :
             IF \E d \in calls' : d.n = c.n
             THEN /\ currentConversationId' = currentConversationId
                  /\ Messages(chatOutput') = Messages(chatOutput)
             ELSE /\ Len(Messages(chatOutput')) = Len(Messages(chatOutput)) + 1
                  /\ SubSeq(Messages(chatOutput'), 1, Len(Messages(chatOutput)))
                         = Messages(chatOutput)
                  /\ Last(Messages(chatOutput')).classes = {"message", "model"}]_vars

\* a new chat was attempted while a send in an existing conversation waited
C19_Witness ==
    /\ lastEvent = [op |-> "startNewChat", accepted |-> FALSE]
    /\ \E c \in InFlight("/api/chat") :
          c.id \in Ids /\ c.id = currentConversationId /\ c.at = "json"

\* C20: the send button and the prompt input are disabled iff isLoading is
\* true, in every reachable state.
C20_ControlsFollowLoading ==
    /\ sendButtonDisabled <=> isLoading
    /\ promptInputDisabled <=> isLoading

\* both controls are disabled during a conversation load
C20_Witness ==
    /\ isLoading /\ sendButtonDisabled /\ promptInputDisabled
    /\ \E c \in InFlight("/api/history/{id}") : c.at = "json"
====
